---- MODULE Spec2Model ----
(***************************************************************************)
(* APRS-over-AFSK transmitter pipeline of franc-master-control.            *)
(*                                                                         *)
(* run_aprs (unnamed/part_000) and gen_iq_s8 / modulate (src/aprs.cpp)     *)
(* drive the pipeline  ax25frame -> nrzi -> afsk -> modulate.  The bodies  *)
(* of ax25frame, nrzi, afsk, fmmod, FIRInterpolator and Ringbuffer_t live  *)
(* in src/ax25.cpp and src/dsp.cpp (CMakeLists.txt lines 224-225), which   *)
(* are not part of the source tree at hand; those operators follow the     *)
(* design document (sections 3 and 4) instead.                             *)
(*                                                                         *)
(* Text is a sequence of ASCII codes, a byte is a number in 0..255, a bit  *)
(* stream is a sequence over {0,1} in transmission order.                  *)
(***************************************************************************)
EXTENDS Integers, Sequences, FiniteSets, TLC

VARIABLES
    pc,          \* position of the pipeline under study
    config,      \* Config fields run_aprs reads: callsign, dest, path, info
    body,        \* byte string handed to the FCS computation
    frame_bytes, \* AX.25 frame bytes, FCS included
    frame,       \* result of ax25frame: flag-framed, bit-stuffed bit stream
    frame_nrzi,  \* result of nrzi(frame)
    s,           \* a logical bit sequence (input of the bit-level operators)
    waveform,    \* modulate: the audio samples
    offset,      \* modulate: index of the next audio sample
    last_phase,  \* modulate: FM phase carried between chunks
    mod_buf,     \* modulate: ring buffer of FM samples
    processed,   \* modulate: value returned by the last interpolate call
    sink,        \* modulate: chunks written to fout, in order
    hist,        \* observation log of the fmmod / interpolate calls
    iq_sf,       \* output format: IQ_S8, IQ_F32 or PCM_F32
    wave,        \* run_aprs: result of afsk(frame_nrzi)
    fout,        \* run_aprs: the output stream, "stdout" or "file"
    fout_err,    \* error indicator of fout: some fwrite fell short
    interp_buf,  \* f32_to_s8: complex samples, components in 1/Den
    samples_s8,  \* f32_to_s8: the int8_t vector returned
    result,      \* the value a call returned, NotReturned before
    fd,          \* the serial port: "closed" or "open"
    port_tx,     \* the messages written to the serial port, in order
    buf,         \* interconnect_bus / interconnect_handshake: buf[0..pos)
    rx_log,      \* the bytes read from the serial port by the current call
    line,        \* interconnect_bus: the line returned
    jsonMsg,     \* request_json: jsonMsg
    attempts,    \* request_json / interconnect_handshake: attempts
    handshakeDone, \* interconnect_handshake: handshakeDone
    calls,       \* transmit_s8_iq_file: the library calls made, with outcome
    fp,          \* the sample file handle: "null", "open" or "closed"
    fpos,        \* read position of fp
    file,        \* the bytes of the sample file
    streaming,   \* what hackrf_is_streaming reports
    in_cb,       \* the driver thread is inside tx_callback
    cb_log,      \* one record per finished tx_callback invocation
    received,    \* main: the message of the current cycle, parsed
    cycles,      \* main: one record per run_aprs call of the loop
    path_buf     \* gen_iq_s8: char path[64]

vars == <<pc, config, body, frame_bytes, frame, frame_nrzi, s,
          waveform, offset, last_phase, mod_buf, processed, sink, hist,
          iq_sf, wave, fout, fout_err, interp_buf, samples_s8, result,
          fd, port_tx, buf, rx_log, line, jsonMsg, attempts, handshakeDone,
          calls, fp, fpos, file, streaming, in_cb, cb_log,
          received, cycles, path_buf>>

frameVars == <<config, body, frame_bytes, frame, frame_nrzi, s>>
modVars   == <<waveform, offset, last_phase, mod_buf, processed, sink, hist>>
outVars   == <<iq_sf, wave, fout, fout_err, interp_buf, samples_s8,
               result>>
serVars   == <<fd, port_tx, buf, rx_log, line, jsonMsg, attempts,
               handshakeDone>>

-----------------------------------------------------------------------------
(* Bounds of the model *)

\* longest byte string drawn for the serializer / FCS specification
MaxBodyLen == 3
\* longest logical bit sequence drawn for the bit-level specification
MaxBits == 8
\* flag bytes emitted before and after the stuffed data (the reference
\* emits one opening flag; the design allows a longer preamble)
OpeningFlags == 1
ClosingFlags == 1
\* longest audio waveform drawn for modulate
MaxWave == 4
\* chunk size of modulate (BUFSIZE of dsp.h, 4096 in the design), scaled down
BUFSIZE == 2
QMax == 260
MaxPartial == 2
MaxReply == 12
MaxFileLen == 5
BufferLength == 2
MaxInvocations == 4
MaxCycles == 3
MaxPathLen == 66

-----------------------------------------------------------------------------
(* Bits and bytes *)

Bit(n, i) == (n \div (2 ^ i)) % 2

\* the eight bits of a byte, least significant first
ByteBits(b) == [i \in 1..8 |-> Bit(b, i - 1)]

\* every byte LSB first, bytes in order
BytesToBits(bs) ==
    [i \in 1..(8 * Len(bs)) |-> Bit(bs[((i - 1) \div 8) + 1], (i - 1) % 8)]

RECURSIVE BitXor(_, _)
BitXor(a, b) ==
    IF a = 0 THEN b
    ELSE IF b = 0 THEN a
    ELSE (((a % 2) + (b % 2)) % 2) + 2 * BitXor(a \div 2, b \div 2)

RECURSIVE Reflect(_, _)
\* the low n bits of x in reverse order
Reflect(x, n) ==
    IF n = 0 THEN 0 ELSE (x % 2) * (2 ^ (n - 1)) + Reflect(x \div 2, n - 1)

RECURSIVE Concat(_)
Concat(ss) == IF ss = <<>> THEN <<>> ELSE Head(ss) \o Concat(Tail(ss))

Min(a, b) == IF a < b THEN a ELSE b

-----------------------------------------------------------------------------
(* Frame check sequence (design section 3 and 4.1) *)

CrcInit == 65535          \* 0xFFFF
CrcXorOut == 65535        \* 0xFFFF
CrcPoly == 4129           \* 0x1021
CrcPolyReflected == 33800 \* 0x8408, 0x1021 bit-reversed

\* one data bit into the right-shifting (LSB first) CRC register
CrcBit(crc, bit) ==
    LET fb == ((crc % 2) + bit) % 2
        sh == crc \div 2
    IN  IF fb = 1 THEN BitXor(sh, CrcPolyReflected) ELSE sh

RECURSIVE CrcByte(_, _, _)
\* bits i..7 of byte b into the register, least significant first
CrcByte(crc, b, i) ==
    IF i > 7 THEN crc ELSE CrcByte(CrcBit(crc, Bit(b, i)), b, i + 1)

RECURSIVE CrcRange(_, _, _, _)
\* the register after bytes[lo..hi], starting from crc (the range is halved
\* to keep the evaluation shallow; the bytes are taken in order)
CrcRange(bytes, lo, hi, crc) ==
    IF lo > hi THEN crc
    ELSE IF lo = hi THEN CrcByte(crc, bytes[lo], 0)
    ELSE LET mid == (lo + hi) \div 2
             left == CrcRange(bytes, lo, mid, crc)
         IN  IF left >= 0 THEN CrcRange(bytes, mid + 1, hi, left) ELSE left

\* FCS of the frame builder: register run over the bytes LSB first, complemented
Fcs(bytes) == BitXor(CrcRange(bytes, 1, Len(bytes), CrcInit), CrcXorOut)

\* the two FCS bytes in output order: low byte, then high byte
FcsBytes_HighFirst(bytes) == <<Fcs(bytes) \div 256, Fcs(bytes) % 256>>
FcsBytes(bytes) == <<Fcs(bytes) % 256, Fcs(bytes) \div 256>>

-----------------------------------------------------------------------------
(* Address field and frame bytes (design section 3 and 4.1) *)

Space == 32
Comma == 44
Hyphen == 45
Digit0 == 48
Control == 3     \* 0x03, UI frame
Pid == 240       \* 0xF0, no layer 3
SsidReserved == 96 \* 0b01100000, reserved bits 5 and 6 set
CallLen == 6

RECURSIVE Split(_, _)
\* the pieces of text between occurrences of sep; the empty text has no piece
Split(text, sep) ==
    IF text = <<>> THEN <<>>
    ELSE LET idx == {i \in 1..Len(text) : text[i] = sep}
         IN  IF idx = {} THEN <<text>>
             ELSE LET i == CHOOSE j \in idx : \A k \in idx : j <= k
                  IN  <<SubSeq(text, 1, i - 1)>>
                        \o Split(SubSeq(text, i + 1, Len(text)), sep)

RECURSIVE Decimal(_)
Decimal(digits) ==
    IF digits = <<>> THEN 0
    ELSE Decimal(SubSeq(digits, 1, Len(digits) - 1)) * 10
           + (digits[Len(digits)] - Digit0)

\* CALL[-SSID] -> [call, ssid]
ParseAddr(text) ==
    LET parts == Split(text, Hyphen)
    IN  [call |-> IF parts = <<>> THEN <<>> ELSE parts[1],
         ssid |-> IF Len(parts) >= 2 THEN Decimal(parts[2]) ELSE 0]

\* comma-separated list of CALL[-SSID]
ParsePath(path) ==
    LET entries == Split(path, Comma)
    IN  [i \in 1..Len(entries) |-> ParseAddr(entries[i])]

\* one 7-byte address block: six shifted characters, then the SSID byte
EncodeAddress(addr, last) ==
    [i \in 1..CallLen |->
        ((IF i <= Len(addr.call) THEN addr.call[i] ELSE Space) * 2) % 256]
      \o <<SsidReserved + 2 * addr.ssid + (IF last THEN 1 ELSE 0)>>

\* destination, source, digis in path order; the last block carries bit 0
AddressField(callsign, dest, path) ==
    LET addrs == <<ParseAddr(dest), ParseAddr(callsign)>> \o ParsePath(path)
    IN  Concat([i \in 1..Len(addrs) |->
                   EncodeAddress(addrs[i], i = Len(addrs))])

\* bytes covered by the FCS
FrameBody(callsign, dest, path, info) ==
    AddressField(callsign, dest, path) \o <<Control, Pid>> \o info

FrameBytes(callsign, dest, path, info) ==
    LET b == FrameBody(callsign, dest, path, info) IN b \o FcsBytes(b)

-----------------------------------------------------------------------------
(* Bit serializer and stuffer (design section 4.2) *)

Flag == 126   \* 0x7E
StuffRun == 5 \* consecutive 1 bits after which a 0 is inserted

FlagBits == ByteBits(Flag)

\* n flag bytes as bits
Flags(n) == [i \in 1..(8 * n) |-> FlagBits[((i - 1) % 8) + 1]]

RECURSIVE StuffFrom(_, _, _, _, _)
\* bits[lo..hi] with a 0 inserted after every run-th consecutive 1; ones is
\* the running count of consecutive 1 bits on entry.  The result is the
\* output bits and the running count on exit.
StuffFrom(bits, lo, hi, ones, run) ==
    IF lo > hi THEN [out |-> <<>>, ones |-> ones]
    ELSE LET insert == bits[lo] = 1 /\ ones + 1 = run
             count == IF bits[lo] = 1 /\ ~insert THEN ones + 1 ELSE 0
             rest == StuffFrom(bits, lo + 1, hi, count, run)
         IN  [out |-> (IF insert THEN <<1, 0>> ELSE <<bits[lo]>>) \o rest.out,
              ones |-> rest.ones]

RECURSIVE StuffRange(_, _, _, _, _, _)
\* StuffFrom over the 8-bit pieces lo..hi of bits; carry tells whether the
\* running count is handed from one piece to the next (the range is halved
\* to keep the evaluation shallow; the pieces are taken in order)
StuffRange(bits, lo, hi, ones, run, carry) ==
    IF lo > hi THEN [out |-> <<>>, ones |-> ones]
    ELSE IF lo = hi
         THEN StuffFrom(bits, (8 * (lo - 1)) + 1, Min(8 * lo, Len(bits)),
                        IF carry THEN ones ELSE 0, run)
    ELSE LET mid == (lo + hi) \div 2
             left == StuffRange(bits, lo, mid, ones, run, carry)
             right == StuffRange(bits, mid + 1, hi, left.ones, run, carry)
         IN  [out |-> left.out \o right.out, ones |-> right.ones]

Pieces(bits) == (Len(bits) + 7) \div 8

stuff_ResetEachByte(bits) ==
    StuffRange(bits, 1, Pieces(bits), 0, StuffRun, FALSE).out
stuff_AfterFour(bits) ==
    StuffRange(bits, 1, Pieces(bits), 0, StuffRun - 1, TRUE).out
stuff_AfterSix(bits) ==
    StuffRange(bits, 1, Pieces(bits), 0, StuffRun + 1, TRUE).out
\* the running count is kept across byte boundaries
stuff(bits) == StuffRange(bits, 1, Pieces(bits), 0, StuffRun, TRUE).out

\* opening flag(s), stuffed frame bits, closing flag(s)
Serialize(bytes) ==
    Flags(OpeningFlags) \o stuff(BytesToBits(bytes)) \o Flags(ClosingFlags)

ax25frame(callsign, dest, path, info) ==
    Serialize(FrameBytes(callsign, dest, path, info))

-----------------------------------------------------------------------------
(* NRZI encoder (design section 3 and 4.3) *)

NrziInit == 1 \* initial line level

RECURSIVE NrziFrom(_, _, _, _, _)
\* line symbols for bits[lo..hi] from the given level; toggleOn is the bit
\* value that toggles the level, the other holds it; the emitted symbol is
\* the new level
NrziFrom(bits, lo, hi, level, toggleOn) ==
    IF lo > hi THEN <<>>
    ELSE LET new == IF bits[lo] = toggleOn THEN 1 - level ELSE level
         IN  <<new>> \o NrziFrom(bits, lo + 1, hi, new, toggleOn)

RECURSIVE NrziRange(_, _, _, _, _)
\* NrziFrom over the 8-bit pieces lo..hi of bits, the level carried from one
\* piece to the next (the range is halved to keep the evaluation shallow)
NrziRange(bits, lo, hi, level, toggleOn) ==
    IF lo > hi THEN <<>>
    ELSE IF lo = hi
         THEN NrziFrom(bits, (8 * (lo - 1)) + 1, Min(8 * lo, Len(bits)),
                       level, toggleOn)
    ELSE LET mid == (lo + hi) \div 2
             left == NrziRange(bits, lo, mid, level, toggleOn)
             lvl == IF left = <<>> THEN level ELSE left[Len(left)]
         IN  left \o NrziRange(bits, mid + 1, hi, lvl, toggleOn)

nrzi_ToggleOnOne(bits) == NrziRange(bits, 1, Pieces(bits), NrziInit, 1)
nrzi(bits) == NrziRange(bits, 1, Pieces(bits), NrziInit, 0)

-----------------------------------------------------------------------------
(* Validation of the arguments of ax25frame *)

MaxInfo == 256 \* default maximum length of the information field
MaxDigis == 8 \* longest digi path of the design

IsAlnum(c) == c \in (48..57) \cup (65..90) \cup (97..122)
IsDigits(text) ==
    text # <<>> /\ \A i \in 1..Len(text) : text[i] \in Digit0..(Digit0 + 9)

\* CALL[-SSID] is no address: no call, a call of more than six characters,
\* a character that is neither alphanumeric nor a space, or an SSID that is
\* no number in 0..15
InvalidCallsign(text) ==
    LET parts == Split(text, Hyphen)
    IN  IF parts = <<>> THEN TRUE
        ELSE \/ Len(parts) > 2
             \/ parts[1] = <<>>
             \/ Len(parts[1]) > CallLen
             \/ \E i \in 1..Len(parts[1]) :
                   ~IsAlnum(parts[1][i]) /\ parts[1][i] # Space
             \/ /\ Len(parts) = 2
                /\ (~IsDigits(parts[2]) \/ Decimal(parts[2]) > 15)

InvalidPath(path) ==
    LET entries == Split(path, Comma)
    IN  \/ Len(entries) > MaxDigis
        \/ \E i \in 1..Len(entries) : InvalidCallsign(entries[i])

\* the error ax25frame raises instead of building a frame, "ok" if none
ax25frame_error(callsign, dest, path, info) ==
    IF InvalidCallsign(callsign) \/ InvalidCallsign(dest)
    THEN "InvalidCallsign"
    ELSE IF InvalidPath(path) THEN "InvalidPath"
    ELSE IF Len(info) > MaxInfo THEN "OversizedInfo"
    ELSE "ok"

-----------------------------------------------------------------------------
(* AFSK synthesizer                                                          *)
(*                                                                           *)
(* The phase accumulator is held in units of 1/Period of a turn, Period the  *)
(* smallest number that makes the increments of both tones whole, so the     *)
(* arithmetic on it is exact.  An audio sample sin(phi) is held as phi.      *)

MarkHz == 1200
SpaceHz == 2200
Baud == 1200
AUDIO_SAMPLE_RATE == 48000
PhaseUnit == 200 \* greatest common divisor of the three frequencies

SamplesPerBit == AUDIO_SAMPLE_RATE \div Baud
Period == AUDIO_SAMPLE_RATE \div PhaseUnit

\* 2 * pi * f / Fs of the tone of bit b: 1 is mark, 0 is space
Increment(b) == (IF b = 1 THEN MarkHz ELSE SpaceHz) \div PhaseUnit

\* the bit audio sample j belongs to
BitOf(j) == ((j - 1) \div SamplesPerBit) + 1

\* the phase a sample starts from: the accumulator as the previous sample
\* left it, also at the first sample of a bit
PhaseIn(j, phase, reset) ==
    IF reset /\ (j - 1) % SamplesPerBit = 0 THEN 0 ELSE phase

RECURSIVE AfskRange(_, _, _, _, _)
\* the samples lo..hi of the waveform of bits, the accumulator being phase
\* before sample lo; reset tells whether a bit starts from phase 0
AfskRange(bits, lo, hi, phase, reset) ==
    IF lo > hi THEN [out |-> <<>>, phase |-> phase]
    ELSE IF lo = hi
    THEN LET phi == (PhaseIn(lo, phase, reset) + Increment(bits[BitOf(lo)]))
                        % Period
         IN  [out |-> <<phi>>, phase |-> phi]
    ELSE LET mid == (lo + hi) \div 2
             left == AfskRange(bits, lo, mid, phase, reset)
             right == AfskRange(bits, mid + 1, hi, left.phase, reset)
         IN  [out |-> left.out \o right.out, phase |-> right.phase]

afsk_ResetEachBit(bits) ==
    AfskRange(bits, 1, SamplesPerBit * Len(bits), 0, TRUE).out
afsk(bits) == AfskRange(bits, 1, SamplesPerBit * Len(bits), 0, FALSE).out

-----------------------------------------------------------------------------
(* run_aprs: the request and the calls it makes *)

N0CALL == <<78, 48, 67, 65, 76, 76>>
KD9WPR == <<75, 68, 57, 87, 80, 82>>
APRS == <<65, 80, 82, 83>>
CQ == <<67, 81>>
WIDE == <<87, 73, 68, 69>>
Hello == <<72, 101, 108, 108, 111>>
\* "Hello from APRS default message"
DefaultInfo == <<72, 101, 108, 108, 111, 32, 102, 114, 111, 109, 32, 65, 80,
                 82, 83, 32, 100, 101, 102, 97, 117, 108, 116, 32, 109, 101,
                 115, 115, 97, 103, 101>>

callsignUsed_AlwaysDefault(cfg) == KD9WPR
callsignUsed_Raw(cfg) == cfg.callsign
callsignUsed(cfg) == IF cfg.callsign # <<>> THEN cfg.callsign ELSE KD9WPR
infoUsed_Inverted(cfg) == IF cfg.info = <<>> THEN cfg.info ELSE DefaultInfo
infoUsed_AlwaysDefault(cfg) == DefaultInfo
infoUsed(cfg) == IF cfg.info # <<>> THEN cfg.info ELSE DefaultInfo

\* the arguments run_aprs hands to ax25frame
FrameArgs_SwapAddr(cfg) ==
    [callsign |-> cfg.dest, dest |-> callsignUsed(cfg),
     path |-> cfg.path, info |-> infoUsed(cfg)]
FrameArgs_NoPath(cfg) ==
    [callsign |-> callsignUsed(cfg), dest |-> cfg.dest,
     path |-> <<>>, info |-> infoUsed(cfg)]
FrameArgs(cfg) ==
    [callsign |-> callsignUsed(cfg), dest |-> cfg.dest,
     path |-> cfg.path, info |-> infoUsed(cfg)]

-----------------------------------------------------------------------------
(* Inputs *)

DigiEntry(i) == WIDE \o <<Digit0 + i, Hyphen, Digit0 + i>> \* "WIDEi-i"

RECURSIVE PathOf(_)
\* "WIDE1-1,WIDE2-2,...,WIDEn-n"
PathOf(n) ==
    IF n = 0 THEN <<>>
    ELSE PathOf(n - 1) \o (IF n > 1 THEN <<Comma>> ELSE <<>>) \o DigiEntry(n)

Callsigns == {N0CALL, <<>>, KD9WPR \o <<Hyphen, Digit0 + 7>>}
Dests == {APRS, CQ}
Paths == {PathOf(n) : n \in 0..MaxDigis}
Infos == {Hello, <<>>, <<255, 126>>, <<252>>}

Requests == [callsign : Callsigns, dest : Dests, path : Paths, info : Infos]

\* scenario 1 of the design: N0CALL > APRS, no path, "Hello"
SmokeRequest ==
    [callsign |-> N0CALL, dest |-> APRS, path |-> <<>>, info |-> Hello]

\* "123456789"
CrcTestVector == <<49, 50, 51, 52, 53, 54, 55, 56, 57>>

ByteVals == {0, 255, 126, 63, 252, 85}
Bodies ==
    UNION {[1..n -> ByteVals] : n \in 0..MaxBodyLen} \cup {CrcTestVector}

BitSeqs == UNION {[1..n -> {0, 1}] : n \in 0..MaxBits}

NoRequest == [callsign |-> <<>>, dest |-> <<>>, path |-> <<>>, info |-> <<>>]

FrameIdle ==
    /\ config = NoRequest
    /\ body = <<>>
    /\ frame_bytes = <<>>
    /\ frame = <<>>
    /\ frame_nrzi = <<>>
    /\ s = <<>>

\* how a call has ended: not yet, with a return value, or with an error
\* raised by a callee and passed on to the caller
NotReturned == [kind |-> "none"]
Returned(value) == [kind |-> "return", value |-> value]
Raised(error) == [kind |-> "error", error |-> error]
NotOpen == "none"

OutIdle ==
    /\ iq_sf = "IQ_S8"
    /\ wave = <<>>
    /\ fout = NotOpen
    /\ fout_err = FALSE
    /\ interp_buf = <<>>
    /\ samples_s8 = <<>>
    /\ result = NotReturned

txVars    == <<calls, fp, fpos, file, streaming, in_cb, cb_log>>
hostVars  == <<received, cycles, path_buf>>

NoMessage == [kind |-> "none"]

TxIdle ==
    /\ calls = <<>>
    /\ fp = "null"
    /\ fpos = 0
    /\ file = <<>>
    /\ streaming = FALSE
    /\ in_cb = FALSE
    /\ cb_log = <<>>

HostIdle ==
    /\ received = NoMessage
    /\ cycles = <<>>
    /\ path_buf = <<>>

SerIdle ==
    /\ fd = "closed"
    /\ port_tx = <<>>
    /\ buf = <<>>
    /\ rx_log = <<>>
    /\ line = <<>>
    /\ jsonMsg = <<>>
    /\ attempts = 0
    /\ handshakeDone = FALSE

ModIdle ==
    /\ waveform = <<>>
    /\ offset = 0
    /\ last_phase = 0
    /\ mod_buf = <<>>
    /\ processed = 0
    /\ sink = <<>>
    /\ hist = <<>>

-----------------------------------------------------------------------------
(* Spec: run_aprs from a request to the NRZI bit stream *)

Init ==
    /\ pc = "start"
    /\ config \in Requests
    /\ body = <<>>
    /\ frame_bytes = <<>>
    /\ frame = <<>>
    /\ frame_nrzi = <<>>
    /\ s = <<>>
    /\ ModIdle
    /\ OutIdle
    /\ SerIdle
    /\ TxIdle
    /\ HostIdle

\* auto frame = ax25frame(...): the frame, or the error ax25frame raises,
\* which nothing in the caller catches
CallFrame(a, next, failed) ==
    LET e == ax25frame_error(a.callsign, a.dest, a.path, a.info)
    IN  IF e = "ok"
        THEN /\ body' = FrameBody(a.callsign, a.dest, a.path, a.info)
             /\ frame_bytes' = FrameBytes(a.callsign, a.dest, a.path, a.info)
             /\ frame' = ax25frame(a.callsign, a.dest, a.path, a.info)
             /\ result' = result
             /\ pc' = next
        ELSE /\ UNCHANGED <<body, frame_bytes, frame>>
             /\ result' = Raised(e)
             /\ pc' = failed

\* auto frame = ax25frame(callsignUsed, dest, path, infoUsed, false)
RunAprsFrame ==
    /\ pc = "start"
    /\ CallFrame(FrameArgs(config), "framed", "error")
    /\ UNCHANGED <<config, frame_nrzi, s>>
    /\ UNCHANGED modVars
    /\ UNCHANGED <<iq_sf, wave, fout, fout_err, interp_buf, samples_s8>>
    /\ UNCHANGED serVars
    /\ UNCHANGED txVars
    /\ UNCHANGED hostVars

\* auto frame_nrzi = nrzi(frame)
RunAprsNrzi ==
    /\ pc = "framed"
    /\ frame_nrzi' = nrzi(frame)
    /\ pc' = "coded"
    /\ UNCHANGED <<config, body, frame_bytes, frame, s>>
    /\ UNCHANGED modVars
    /\ UNCHANGED outVars
    /\ UNCHANGED serVars
    /\ UNCHANGED txVars
    /\ UNCHANGED hostVars

Next == RunAprsFrame \/ RunAprsNrzi

Spec == Init /\ [][Next]_vars

-----------------------------------------------------------------------------
(* SpecReject: run_aprs and gen_iq_s8 on requests ax25frame may refuse *)

\* "KD9WPRX", "N0CALL-16", "N0*ALL", "N0CALL-15"
LongCall == KD9WPR \o <<88>>
Ssid16 == N0CALL \o <<Hyphen, Digit0 + 1, Digit0 + 6>>
BadChar == <<78, 48, 42, 65, 76, 76>>
Ssid15 == N0CALL \o <<Hyphen, Digit0 + 1, Digit0 + 5>>

\* information fields of MaxInfo and of MaxInfo + 1 bytes
InfoFull == [i \in 1..MaxInfo |-> 65]
InfoOver == [i \in 1..(MaxInfo + 1) |-> 65]

RejectRequests ==
    [callsign : {N0CALL, <<>>, LongCall, Ssid16, BadChar, Ssid15},
     dest : {APRS},
     path : {<<>>, PathOf(1)},
     info : {Hello, <<>>, InfoFull, InfoOver}]

\* strncpy(path, user_path, 63): the characters copied
strncpy(text, n) == SubSeq(text, 1, Min(Len(text), n))

\* gen_iq_s8: the arguments handed to ax25frame
GenArgs(cfg) ==
    [callsign |-> cfg.callsign, dest |-> APRS,
     path |-> strncpy(cfg.path, 63), info |-> cfg.info]

InitReject ==
    /\ pc \in {"start", "gen_start"}
    /\ config \in RejectRequests
    /\ body = <<>>
    /\ frame_bytes = <<>>
    /\ frame = <<>>
    /\ frame_nrzi = <<>>
    /\ s = <<>>
    /\ ModIdle
    /\ OutIdle
    /\ SerIdle
    /\ TxIdle
    /\ HostIdle

\* gen_iq_s8: auto frame = ax25frame(callsign, dest, path, info, false)
GenIqFrame ==
    /\ pc = "gen_start"
    /\ CallFrame(GenArgs(config), "gen_framed", "gen_error")
    /\ UNCHANGED <<config, frame_nrzi, s>>
    /\ UNCHANGED modVars
    /\ UNCHANGED <<iq_sf, wave, fout, fout_err, interp_buf, samples_s8>>
    /\ UNCHANGED serVars
    /\ UNCHANGED txVars
    /\ UNCHANGED hostVars

\* gen_iq_s8: auto frame_nrzi = nrzi(frame)
GenIqNrzi ==
    /\ pc = "gen_framed"
    /\ frame_nrzi' = nrzi(frame)
    /\ pc' = "gen_coded"
    /\ UNCHANGED <<config, body, frame_bytes, frame, s>>
    /\ UNCHANGED modVars
    /\ UNCHANGED outVars
    /\ UNCHANGED serVars
    /\ UNCHANGED txVars
    /\ UNCHANGED hostVars

NextReject == RunAprsFrame \/ RunAprsNrzi \/ GenIqFrame \/ GenIqNrzi

SpecReject == InitReject /\ [][NextReject]_vars

-----------------------------------------------------------------------------
(* SpecBytes: FCS and bit serializer applied to arbitrary byte strings *)

InitBytes ==
    /\ pc = "body"
    /\ body \in Bodies
    /\ config = NoRequest
    /\ frame_bytes = <<>>
    /\ frame = <<>>
    /\ frame_nrzi = <<>>
    /\ s = <<>>
    /\ ModIdle
    /\ OutIdle
    /\ SerIdle
    /\ TxIdle
    /\ HostIdle

AppendFcs ==
    /\ pc = "body"
    /\ frame_bytes' = body \o FcsBytes(body)
    /\ pc' = "fcs"
    /\ UNCHANGED <<config, body, frame, frame_nrzi, s>>
    /\ UNCHANGED modVars
    /\ UNCHANGED outVars
    /\ UNCHANGED serVars
    /\ UNCHANGED txVars
    /\ UNCHANGED hostVars

SerializeFrame ==
    /\ pc = "fcs"
    /\ frame' = Serialize(frame_bytes)
    /\ pc' = "serialized"
    /\ UNCHANGED <<config, body, frame_bytes, frame_nrzi, s>>
    /\ UNCHANGED modVars
    /\ UNCHANGED outVars
    /\ UNCHANGED serVars
    /\ UNCHANGED txVars
    /\ UNCHANGED hostVars

NextBytes == AppendFcs \/ SerializeFrame

SpecBytes == InitBytes /\ [][NextBytes]_vars

-----------------------------------------------------------------------------
(* SpecBits: stuffer and NRZI encoder applied to arbitrary bit sequences *)

InitBits ==
    /\ pc = "bits"
    /\ s \in BitSeqs
    /\ config = NoRequest
    /\ body = <<>>
    /\ frame_bytes = <<>>
    /\ frame = <<>>
    /\ frame_nrzi = <<>>
    /\ ModIdle
    /\ OutIdle
    /\ SerIdle
    /\ TxIdle
    /\ HostIdle

StuffBits ==
    /\ pc = "bits"
    /\ frame' = stuff(s)
    /\ pc' = "stuffed"
    /\ UNCHANGED <<config, body, frame_bytes, frame_nrzi, s>>
    /\ UNCHANGED modVars
    /\ UNCHANGED outVars
    /\ UNCHANGED serVars
    /\ UNCHANGED txVars
    /\ UNCHANGED hostVars

NrziBits ==
    /\ pc = "bits"
    /\ frame_nrzi' = nrzi(s)
    /\ pc' = "nrzi"
    /\ UNCHANGED <<config, body, frame_bytes, frame, s>>
    /\ UNCHANGED modVars
    /\ UNCHANGED outVars
    /\ UNCHANGED serVars
    /\ UNCHANGED txVars
    /\ UNCHANGED hostVars

NextBits == StuffBits \/ NrziBits

SpecBits == InitBits /\ [][NextBits]_vars

-----------------------------------------------------------------------------
(* SpecModulate: modulate(waveform, fout, iq_sf), one loop iteration being   *)
(* fmmod, interpolate, remove, fwrite.  An audio sample is a small integer,  *)
(* the FM sensitivity is one phase unit per audio unit, an FM sample is      *)
(* [n, psi]: the index of its audio sample and the phase it was made at.     *)

AudioVals == {-1, 0, 1}
Waveforms == UNION {[1..n -> AudioVals] : n \in 0..MaxWave}

RECURSIVE PhaseAfter(_, _, _, _)
\* psi[n] = psi[n-1] + x[n] over audio[from+1 .. from+count], from phase
PhaseAfter(audio, from, count, phase) ==
    IF count = 0 THEN phase
    ELSE PhaseAfter(audio, from, count - 1, phase) + audio[from + count]

\* fmmod(waveform.data() + offset, input_size, mod_buf, sensitivity, phase):
\* the FM samples pushed into the ring buffer, and the phase returned
fmmod(audio, from, count, phase) ==
    [samples |-> [j \in 1..count |->
                     [n |-> from + j, psi |-> PhaseAfter(audio, from, j, phase)]],
     phase |-> PhaseAfter(audio, from, count, phase)]

\* the numbers of input samples interp.interpolate may report as consumed
InterpolateConsumes(ring) == 0..Len(ring)

\* Ringbuffer_t::remove(count): the oldest count samples leave the buffer
remove(ring, count) == SubSeq(ring, count + 1, Len(ring))

\* int input_size = std::min(BUFSIZE, (int)waveform.size() - offset)
input_size(audio, off) == Min(BUFSIZE, Len(audio) - off)

\* the starting phase modulate hands to fmmod
start_phase_Zero(phase) == 0
start_phase(phase) == phase

\* mod_buf.remove(processed)
mod_buf_remove_All(ring, count) == <<>>
mod_buf_remove(ring, count) == remove(ring, count)

\* float factor = 50.0: the interpolation factor
factor == 50

\* the number of output samples the interpolator makes from k input samples
interpolated(k) == k * factor

\* bytes of one output sample: f32_to_s8 makes two int8_t of it, otherwise it
\* is written as a std::complex<float>
sample_bytes(fmt) == IF fmt = "IQ_S8" THEN 2 ELSE 8

\* the size of the fwrite for a chunk made from k input samples
chunk_bytes(fmt, k) == interpolated(k) * sample_bytes(fmt)

\* gen_iq_s8: *total = wave.size() * 50 * 2, the size of the buffer returned
total(audio) == Len(audio) * 50 * 2

\* fwrite(chunk, ..., fout): the chunk goes to the end of what fout holds
fwrite_chunk_Front(out, chunk) == <<chunk>> \o out
fwrite_chunk(out, chunk) == Append(out, chunk)

InitModulate ==
    /\ pc = "loop"
    /\ waveform \in Waveforms
    /\ offset = 0
    /\ last_phase = 0
    /\ mod_buf = <<>>
    /\ processed = 0
    /\ sink = <<>>
    /\ hist = [calls |-> <<>>, fed |-> <<>>]
    /\ FrameIdle
    /\ iq_sf \in {"IQ_S8", "IQ_F32"}
    /\ wave = <<>>
    /\ fout = NotOpen
    /\ fout_err = FALSE
    /\ interp_buf = <<>>
    /\ samples_s8 = <<>>
    /\ result = NotReturned
    /\ SerIdle
    /\ TxIdle
    /\ HostIdle

\* while (offset < size) { last_phase = fmmod(..., last_phase);
ModFmmod ==
    /\ pc = "loop"
    /\ offset < Len(waveform)
    /\ LET fm == fmmod(waveform, offset, input_size(waveform, offset),
                       start_phase(last_phase))
       IN  /\ mod_buf' = mod_buf \o fm.samples
           /\ last_phase' = fm.phase
           /\ hist' = [hist EXCEPT !.calls =
                          Append(@, [start |-> start_phase(last_phase),
                                     ret |-> fm.phase])]
    /\ pc' = "interp"
    /\ UNCHANGED <<waveform, offset, processed, sink>>
    /\ UNCHANGED frameVars
    /\ UNCHANGED outVars
    /\ UNCHANGED serVars
    /\ UNCHANGED txVars
    /\ UNCHANGED hostVars

\* int processed = interp.interpolate(mod_buf, interp_buf);
\* if (!processed) break;
ModInterpolate ==
    /\ pc = "interp"
    /\ \E k \in InterpolateConsumes(mod_buf) :
          /\ processed' = k
          /\ hist' = [hist EXCEPT !.fed = @ \o SubSeq(mod_buf, 1, k)]
          /\ pc' = IF k = 0 THEN "done" ELSE "write"
    /\ UNCHANGED <<waveform, offset, last_phase, mod_buf, sink>>
    /\ UNCHANGED frameVars
    /\ UNCHANGED outVars
    /\ UNCHANGED serVars
    /\ UNCHANGED txVars
    /\ UNCHANGED hostVars

\* mod_buf.remove(processed); fwrite(...); offset += input_size; }
ModWrite ==
    /\ pc = "write"
    /\ mod_buf' = mod_buf_remove(mod_buf, processed)
    /\ sink' = fwrite_chunk(sink, SubSeq(mod_buf, 1, processed))
    /\ offset' = offset + input_size(waveform, offset)
    /\ pc' = "loop"
    /\ UNCHANGED <<waveform, last_phase, processed, hist>>
    /\ UNCHANGED frameVars
    /\ UNCHANGED outVars
    /\ UNCHANGED serVars
    /\ UNCHANGED txVars
    /\ UNCHANGED hostVars

\* the loop condition fails
ModExit ==
    /\ pc = "loop"
    /\ offset >= Len(waveform)
    /\ pc' = "done"
    /\ UNCHANGED modVars
    /\ UNCHANGED frameVars
    /\ UNCHANGED outVars
    /\ UNCHANGED serVars
    /\ UNCHANGED txVars
    /\ UNCHANGED hostVars

NextModulate == ModFmmod \/ ModInterpolate \/ ModWrite \/ ModExit

SpecModulate == InitModulate /\ [][NextModulate]_vars

-----------------------------------------------------------------------------
(* SpecOutput: run_aprs from the NRZI bit stream to its return               *)
(*                                                                           *)
(* The output stage of run_aprs on arbitrary short NRZI streams.  The call   *)
(* of modulate is one step here, summarized by the number of audio samples   *)
(* whose output it wrote; its loop is the subject of SpecModulate.           *)

Formats == {"IQ_S8", "IQ_F32", "PCM_F32"}
Outputs == {<<>>, <<112, 107, 116, 56, 46, 115, 56>>} \* "", "pkt8.s8"

\* if (config.iq_sf == PCM_F32)
writes_pcm_Never(fmt) == FALSE
writes_pcm(fmt) == fmt = "PCM_F32"

\* sizeof(float) * wave.size()
pcm_bytes(audio) == 4 * Len(audio)

\* the numbers of audio samples a call modulate(audio, ...) may have written
\* the output of when it returns: all, or fewer when the interpolator held
\* samples back
ModulateConsumed(audio) == {0, Len(audio) \div 2, Len(audio)}

InitOutput ==
    /\ pc = "coded"
    /\ frame_nrzi \in BitSeqs
    /\ iq_sf \in Formats
    /\ config = NoRequest
    /\ body = <<>>
    /\ frame_bytes = <<>>
    /\ frame = <<>>
    /\ s = <<>>
    /\ wave = <<>>
    /\ fout = NotOpen
    /\ fout_err = FALSE
    /\ interp_buf = <<>>
    /\ samples_s8 = <<>>
    /\ result = NotReturned
    /\ ModIdle
    /\ SerIdle
    /\ TxIdle
    /\ HostIdle

\* auto wave = afsk(frame_nrzi)
RunAprsAfsk ==
    /\ pc = "coded"
    /\ wave' = afsk(frame_nrzi)
    /\ pc' = "wave"
    /\ UNCHANGED <<iq_sf, fout, fout_err, interp_buf, samples_s8, result>>
    /\ UNCHANGED frameVars
    /\ UNCHANGED modVars
    /\ UNCHANGED serVars
    /\ UNCHANGED txVars
    /\ UNCHANGED hostVars

\* FILE *fout = stdout; if (!config.output.empty()) { fout = fopen(...);
\* if (!fout) return 1; }
RunAprsOpen ==
    /\ pc = "wave"
    /\ \E output \in Outputs, opened \in BOOLEAN :
          IF output = <<>>
          THEN fout' = "stdout" /\ pc' = "opened" /\ result' = result
          ELSE IF opened
          THEN fout' = "file" /\ pc' = "opened" /\ result' = result
          ELSE fout' = fout /\ pc' = "returned" /\ result' = Returned(1)
    /\ UNCHANGED <<iq_sf, wave, fout_err, interp_buf, samples_s8>>
    /\ UNCHANGED frameVars
    /\ UNCHANGED modVars
    /\ UNCHANGED serVars
    /\ UNCHANGED txVars
    /\ UNCHANGED hostVars

\* if (config.iq_sf == PCM_F32) std::fwrite(wave.data(), sizeof(float),
\* wave.size(), fout);  the value fwrite returns is dropped
RunAprsPcm ==
    /\ pc = "opened"
    /\ writes_pcm(iq_sf)
    /\ sink' = fwrite_chunk(sink, wave)
    /\ \E short \in BOOLEAN : fout_err' = (short /\ wave # <<>>)
    /\ pc' = "written"
    /\ UNCHANGED <<waveform, offset, last_phase, mod_buf, processed, hist>>
    /\ UNCHANGED <<iq_sf, wave, fout, interp_buf, samples_s8, result>>
    /\ UNCHANGED frameVars
    /\ UNCHANGED serVars
    /\ UNCHANGED txVars
    /\ UNCHANGED hostVars

\* else modulate(wave, fout, config.iq_sf);
RunAprsModulate ==
    /\ pc = "opened"
    /\ ~writes_pcm(iq_sf)
    /\ waveform' = wave
    /\ pc' = "modulate"
    /\ UNCHANGED <<offset, last_phase, mod_buf, processed, sink, hist>>
    /\ UNCHANGED outVars
    /\ UNCHANGED frameVars
    /\ UNCHANGED serVars
    /\ UNCHANGED txVars
    /\ UNCHANGED hostVars

\* modulate returns: it has written the output of the first c audio samples
\* and dropped the values fwrite returned
ModulateReturns ==
    /\ pc = "modulate"
    /\ \E c \in ModulateConsumed(waveform), short \in BOOLEAN :
          /\ processed' = c
          /\ sink' = IF c = 0 THEN sink
                     ELSE fwrite_chunk(sink, SubSeq(waveform, 1, c))
          /\ fout_err' = (short /\ c > 0)
    /\ pc' = "written"
    /\ UNCHANGED <<waveform, offset, last_phase, mod_buf, hist>>
    /\ UNCHANGED <<iq_sf, wave, fout, interp_buf, samples_s8, result>>
    /\ UNCHANGED frameVars
    /\ UNCHANGED serVars
    /\ UNCHANGED txVars
    /\ UNCHANGED hostVars

\* if (fout != stdout) std::fclose(fout);  return 0;
RunAprsReturn ==
    /\ pc = "written"
    /\ fout' = IF fout = "file" THEN "closed" ELSE fout
    /\ result' = Returned(0)
    /\ pc' = "returned"
    /\ UNCHANGED <<iq_sf, wave, fout_err, interp_buf, samples_s8>>
    /\ UNCHANGED frameVars
    /\ UNCHANGED modVars
    /\ UNCHANGED serVars
    /\ UNCHANGED txVars
    /\ UNCHANGED hostVars

NextOutput ==
    \/ RunAprsAfsk
    \/ RunAprsOpen
    \/ RunAprsPcm
    \/ RunAprsModulate
    \/ ModulateReturns
    \/ RunAprsReturn

SpecOutput == InitOutput /\ [][NextOutput]_vars

-----------------------------------------------------------------------------
(* SpecS8: f32_to_s8 applied to arbitrary complex samples                    *)
(*                                                                           *)
(* A float component c is the rational q / Den, held as the integer q, so    *)
(* that c * SCHAR_MAX is q / 2 and components of magnitude 1.0 are +-Den.    *)

SCHAR_MAX == 127
SCHAR_MIN == -128
Den == 2 * SCHAR_MAX

\* conversion of the float q / 2 to an integer type: the fraction is dropped
Truncate(q) == IF q >= 0 THEN q \div 2 ELSE -((-q) \div 2)

\* result[...] = component * SCHAR_MAX: the values the implicit conversion
\* float -> int8_t can store.  A truncated value outside the range of int8_t
\* is undefined behaviour: any int8_t may come out (a build that converts
\* through int and narrows stores the value modulo 256).
StoredS8(q) ==
    IF Truncate(q) \in SCHAR_MIN..SCHAR_MAX THEN {Truncate(q)}
    ELSE SCHAR_MIN..SCHAR_MAX

RECURSIVE f32_to_s8(_)
\* the vectors f32_to_s8(input) can return: real part at 2i, imaginary part
\* at 2i + 1
f32_to_s8(input) ==
    IF input = <<>> THEN {<<>>}
    ELSE {<<a, b>> \o rest : a \in StoredS8(Head(input).re),
                             b \in StoredS8(Head(input).im),
                             rest \in f32_to_s8(Tail(input))}

\* the components the samples are drawn from
Components == -QMax..QMax
FewComponents == {0, Den, -3}
Samples == {[re |-> a, im |-> b] : a \in Components, b \in FewComponents}
              \cup {[re |-> a, im |-> b] : a \in FewComponents, b \in Components}

InitS8 ==
    /\ pc = "f32"
    /\ interp_buf \in {<<x>> : x \in Samples} \cup {<<>>}
    /\ samples_s8 = <<>>
    /\ iq_sf = "IQ_S8"
    /\ wave = <<>>
    /\ fout = NotOpen
    /\ fout_err = FALSE
    /\ result = NotReturned
    /\ FrameIdle
    /\ ModIdle
    /\ SerIdle
    /\ TxIdle
    /\ HostIdle

\* std::vector<int8_t> result(input.size() * 2);
\* result[i * 2] = real * SCHAR_MAX; result[i * 2 + 1] = imag * SCHAR_MAX;
F32ToS8 ==
    /\ pc = "f32"
    /\ samples_s8' \in f32_to_s8(interp_buf)
    /\ pc' = "s8"
    /\ UNCHANGED <<iq_sf, wave, fout, fout_err, interp_buf, result>>
    /\ UNCHANGED frameVars
    /\ UNCHANGED modVars
    /\ UNCHANGED serVars
    /\ UNCHANGED txVars
    /\ UNCHANGED hostVars

NextS8 == F32ToS8

SpecS8 == InitS8 /\ [][NextS8]_vars

-----------------------------------------------------------------------------
(* SpecRequest: request_json and the interconnect_bus calls it makes         *)
(*                                                                           *)
(* The serial port is in raw mode with VMIN = VTIME = 0: a read returns at   *)
(* once with the bytes that have arrived, in pieces of any size, or with 0.  *)

Newline == 10
CarriageReturn == 13
BraceOpen == 123
BraceClose == 125

SEND == <<83, 69, 78, 68, 10>>          \* "SEND\n"
ACK == <<65, 67, 75, 10>>               \* "ACK\n"

BusBufSize == 1024 \* char buf[1024]
maxAttempts == 50

\* the results of one read from the port while request_json waits:
\* nothing, "{}\n", "{", "}\n", "x\n", " {}\r\n", "\n", "x"
ReadChunks ==
    {<<>>, <<123, 125, 10>>, <<123>>, <<125, 10>>, <<120, 10>>,
     <<32, 123, 125, 13, 10>>, <<10>>, <<120>>}

\* index of the first newline of text, 0 if it has none
FirstNewline(text) ==
    IF \E i \in 1..Len(text) : text[i] = Newline
    THEN CHOOSE i \in 1..Len(text) :
            text[i] = Newline /\ \A j \in 1..(i - 1) : text[j] # Newline
    ELSE 0

\* read(fd, buf + pos, sizeof(buf) - pos - 1): the bytes stored
ReadInto(held, chunk) ==
    SubSeq(chunk, 1, Min(Len(chunk), BusBufSize - Len(held) - 1))

\* std::string(buf, newline - buf)
LineOf(held) == SubSeq(held, 1, FirstNewline(held) - 1)

IsBlank(c) == c = Space \/ c = CarriageReturn \/ c = Newline

RECURSIVE Trim(_)
\* leading and trailing ' ', '\r' and '\n' erased
Trim(msg) ==
    IF msg = <<>> THEN msg
    ELSE IF IsBlank(msg[1]) THEN Trim(Tail(msg))
    ELSE IF IsBlank(msg[Len(msg)]) THEN Trim(SubSeq(msg, 1, Len(msg) - 1))
    ELSE msg

\* !jsonMsg.empty() && jsonMsg.front() == '{' && jsonMsg.back() == '}'
LooksJson(msg) ==
    msg # <<>> /\ msg[1] = BraceOpen /\ msg[Len(msg)] = BraceClose

\* the state of the other subsystems while the serial link is under study
SerialOnly ==
    /\ FrameIdle
    /\ ModIdle
    /\ iq_sf = "IQ_S8" /\ wave = <<>> /\ fout = NotOpen /\ fout_err = FALSE
    /\ interp_buf = <<>> /\ samples_s8 = <<>>

InitRequest ==
    /\ pc = "rq_start"
    /\ fd = "open"
    /\ port_tx = <<>>
    /\ buf = <<>>
    /\ rx_log = <<>>
    /\ line = <<>>
    /\ jsonMsg = <<>>
    /\ attempts = 0
    /\ handshakeDone = TRUE
    /\ result = NotReturned
    /\ SerialOnly
    /\ TxIdle
    /\ HostIdle

\* if (write(fd, "SEND\n", 5) < 0) return "";
RequestSend ==
    /\ pc = "rq_start"
    /\ \E written \in BOOLEAN :
          IF written
          THEN port_tx' = Append(port_tx, SEND) /\ pc' = "rq_loop"
                 /\ result' = result
          ELSE port_tx' = port_tx /\ pc' = "rq_done"
                 /\ result' = Returned(<<>>)
    /\ UNCHANGED <<fd, buf, rx_log, line, jsonMsg, attempts, handshakeDone>>
    /\ UNCHANGED <<iq_sf, wave, fout, fout_err, interp_buf, samples_s8>>
    /\ UNCHANGED frameVars
    /\ UNCHANGED modVars
    /\ UNCHANGED txVars
    /\ UNCHANGED hostVars

\* while (attempts < maxAttempts) { jsonMsg = interconnect_bus(fd): the
\* call is entered with an empty local buffer
RequestAttempt ==
    /\ pc = "rq_loop"
    /\ attempts < maxAttempts
    /\ buf' = <<>>
    /\ rx_log' = <<>>
    /\ line' = <<>>
    /\ pc' = "bus_read"
    /\ UNCHANGED <<fd, port_tx, jsonMsg, attempts, handshakeDone>>
    /\ UNCHANGED outVars
    /\ UNCHANGED frameVars
    /\ UNCHANGED modVars
    /\ UNCHANGED txVars
    /\ UNCHANGED hostVars

\* interconnect_bus: one turn of while (true): a read, then the line up to
\* the first newline is returned, or nothing when the read gave no data
BusRead ==
    /\ pc = "bus_read"
    /\ \E chunk \in ReadChunks :
          LET got == ReadInto(buf, chunk)
              held == buf \o got
          IN  /\ (FirstNewline(got) = 0 /\ got # <<>>)
                    => Len(buf) < MaxPartial
              /\ rx_log' = rx_log \o got
              /\ IF got = <<>>
                 THEN buf' = buf /\ line' = line /\ pc' = "bus_ret"
                 ELSE IF FirstNewline(held) # 0
                 THEN /\ line' = LineOf(held)
                      /\ buf' = SubSeq(held, FirstNewline(held) + 1, Len(held))
                      /\ pc' = "bus_ret"
                 ELSE buf' = held /\ line' = line /\ pc' = "bus_read"
    /\ UNCHANGED <<fd, port_tx, jsonMsg, attempts, handshakeDone>>
    /\ UNCHANGED outVars
    /\ UNCHANGED frameVars
    /\ UNCHANGED modVars
    /\ UNCHANGED txVars
    /\ UNCHANGED hostVars

\* jsonMsg = (the line returned), trimmed; if it looks like JSON break;
\* attempts++;
RequestCheck ==
    /\ pc = "bus_ret"
    /\ jsonMsg' = Trim(line)
    /\ IF LooksJson(Trim(line))
       THEN attempts' = attempts /\ pc' = "rq_ack"
       ELSE attempts' = attempts + 1 /\ pc' = "rq_loop"
    /\ UNCHANGED <<fd, port_tx, buf, rx_log, line, handshakeDone>>
    /\ UNCHANGED outVars
    /\ UNCHANGED frameVars
    /\ UNCHANGED modVars
    /\ UNCHANGED txVars
    /\ UNCHANGED hostVars

\* the loop condition fails
RequestExhausted ==
    /\ pc = "rq_loop"
    /\ attempts >= maxAttempts
    /\ pc' = "rq_ack"
    /\ UNCHANGED serVars
    /\ UNCHANGED outVars
    /\ UNCHANGED frameVars
    /\ UNCHANGED modVars
    /\ UNCHANGED txVars
    /\ UNCHANGED hostVars

\* write(fd, "ACK\n", 4); return jsonMsg;
RequestAck ==
    /\ pc = "rq_ack"
    /\ port_tx' = Append(port_tx, ACK)
    /\ result' = Returned(jsonMsg)
    /\ pc' = "rq_done"
    /\ UNCHANGED <<fd, buf, rx_log, line, jsonMsg, attempts, handshakeDone>>
    /\ UNCHANGED <<iq_sf, wave, fout, fout_err, interp_buf, samples_s8>>
    /\ UNCHANGED frameVars
    /\ UNCHANGED modVars
    /\ UNCHANGED txVars
    /\ UNCHANGED hostVars

NextRequest ==
    \/ RequestSend
    \/ RequestAttempt
    \/ BusRead
    \/ RequestCheck
    \/ RequestExhausted
    \/ RequestAck

SpecRequest == InitRequest /\ [][NextRequest]_vars

-----------------------------------------------------------------------------
(* SpecHandshake: interconnect_handshake *)

HELLO == <<72, 69, 76, 76, 79, 10>>             \* "HELLO\n"
ACKHELLO == <<65, 67, 75, 72, 69, 76, 76, 79>>  \* "ACKHELLO"

HsBufSize == 128 \* char buf[128]
HsAttempts == 50
ValidFd == 3     \* a descriptor open() returns
Failure == -1

\* the results of one read while the handshake waits: nothing, the whole
\* reply "ACKHELLO\n", its two halves "ACKH" and "ELLO\n", and "x\n"
HsChunks ==
    {<<>>, ACKHELLO \o <<Newline>>, <<65, 67, 75, 72>>,
     <<69, 76, 76, 79, 10>>, <<120, 10>>}

\* std::strstr(text, pat) != nullptr
Contains(text, pat) ==
    \E i \in 1..(Len(text) - Len(pat) + 1) :
        SubSeq(text, i, i + Len(pat) - 1) = pat

\* while (attempts < 50 && !handshakeDone)
HsWaiting(n, done) == n < HsAttempts /\ ~done

\* the port after an error path: close(fd)
HsClosed(port) == "closed"

InitHandshake ==
    /\ pc = "hs_start"
    /\ fd = "closed"
    /\ port_tx = <<>>
    /\ buf = <<>>
    /\ rx_log = <<>>
    /\ line = <<>>
    /\ jsonMsg = <<>>
    /\ attempts = 0
    /\ handshakeDone = FALSE
    /\ result = NotReturned
    /\ SerialOnly
    /\ TxIdle
    /\ HostIdle

\* one of the three steps open, configureSerialPort and write: on failure
\* the port is closed if it was open, and -1 is returned
HsStep(from, to, sent) ==
    /\ pc = from
    /\ \E ok \in BOOLEAN :
          IF ok
          THEN /\ fd' = "open"
               /\ port_tx' = port_tx \o sent
               /\ result' = result
               /\ pc' = to
          ELSE /\ fd' = (IF fd = "open" THEN HsClosed(fd) ELSE fd)
               /\ port_tx' = port_tx
               /\ result' = Returned(Failure)
               /\ pc' = "hs_done"
    /\ UNCHANGED <<buf, rx_log, line, jsonMsg, attempts, handshakeDone>>
    /\ UNCHANGED <<iq_sf, wave, fout, fout_err, interp_buf, samples_s8>>
    /\ UNCHANGED frameVars
    /\ UNCHANGED modVars
    /\ UNCHANGED txVars
    /\ UNCHANGED hostVars

\* int fd = open(serialPort, ...); if (fd < 0) return -1;
HsOpen == HsStep("hs_start", "hs_config", <<>>)

\* if (configureSerialPort(fd, 115200) < 0) { close(fd); return -1; }
HsConfigure == HsStep("hs_config", "hs_write", <<>>)

\* if (write(fd, "HELLO\n", 6) < 0) { close(fd); return -1; }
HsWrite == HsStep("hs_write", "hs_loop", <<HELLO>>)

\* one turn of the loop: usleep; n = read(fd, buf, sizeof(buf) - 1);
\* if (n > 0 && strstr(buf, "ACKHELLO")) handshakeDone = true; attempts++;
HsAttempt ==
    /\ pc = "hs_loop"
    /\ HsWaiting(attempts, handshakeDone)
    /\ \E chunk \in HsChunks :
          LET got == SubSeq(chunk, 1, Min(Len(chunk), HsBufSize - 1))
          IN  /\ Len(rx_log) + Len(got) <= MaxReply
              /\ buf' = (IF got = <<>> THEN buf ELSE got)
              /\ rx_log' = rx_log \o got
              /\ handshakeDone' =
                    (handshakeDone \/ (got # <<>> /\ Contains(got, ACKHELLO)))
    /\ attempts' = attempts + 1
    /\ pc' = "hs_loop"
    /\ UNCHANGED <<fd, port_tx, line, jsonMsg>>
    /\ UNCHANGED outVars
    /\ UNCHANGED frameVars
    /\ UNCHANGED modVars
    /\ UNCHANGED txVars
    /\ UNCHANGED hostVars

\* after the loop: if (!handshakeDone) { close(fd); return -1; } return fd;
HsFinish ==
    /\ pc = "hs_loop"
    /\ ~HsWaiting(attempts, handshakeDone)
    /\ IF handshakeDone
       THEN fd' = fd /\ result' = Returned(ValidFd)
       ELSE fd' = HsClosed(fd) /\ result' = Returned(Failure)
    /\ pc' = "hs_done"
    /\ UNCHANGED <<port_tx, buf, rx_log, line, jsonMsg, attempts,
                   handshakeDone>>
    /\ UNCHANGED <<iq_sf, wave, fout, fout_err, interp_buf, samples_s8>>
    /\ UNCHANGED frameVars
    /\ UNCHANGED modVars
    /\ UNCHANGED txVars
    /\ UNCHANGED hostVars

NextHandshake == HsOpen \/ HsConfigure \/ HsWrite \/ HsAttempt \/ HsFinish

SpecHandshake == InitHandshake /\ [][NextHandshake]_vars

-----------------------------------------------------------------------------
(* SpecTransmit: transmit_s8_iq_file on the main thread and tx_callback on    *)
(* the driver's transfer thread.  The HackRF library is outside the tree: a  *)
(* call of it succeeds or fails, hackrf_start_tx starts the stream, the      *)
(* driver invokes the callback only while the stream is on, and a non-zero   *)
(* return of the callback ends the stream.  Nothing more is assumed of       *)
(* hackrf_stop_tx than that the stream is off after it.                      *)

SampleBytes == {5, 6}   \* sample values of the file, none of them zero
StaleBytes == {0, 9}    \* what a byte of a transfer buffer held before

TxFiles == UNION {[1..n -> SampleBytes] : n \in 0..MaxFileLen}

Zeros(n) == [i \in 1..n |-> 0]

\* the releases of the return paths, by the number of resources held:
\* hackrf_init, hackrf_open, fopen
cleanup_KeepsFile(n) ==
    CASE n = 0 -> <<>>
      [] n = 1 -> <<"hackrf_exit">>
      [] OTHER -> <<"hackrf_close", "hackrf_exit">>
cleanup(n) ==
    CASE n = 0 -> <<>>
      [] n = 1 -> <<"hackrf_exit">>
      [] n = 2 -> <<"hackrf_close", "hackrf_exit">>
      [] OTHER -> <<"fclose", "hackrf_close", "hackrf_exit">>

Closes(fns) == \E i \in 1..Len(fns) : fns[i] = "fclose"

Made(fns) == [i \in 1..Len(fns) |-> [fn |-> fns[i], ok |-> TRUE]]

\* while (hackrf_is_streaming(device) == HACKRF_TRUE)
wait_NoWait(on) == FALSE
wait(on) == on

\* the return value of tx_callback after fread gave nread of buffer_length
tx_return_Zero(nread, buffer_length) == 0
tx_return(nread, buffer_length) == IF nread < buffer_length THEN -1 ELSE 0

InitTransmit ==
    /\ pc = "tx_init"
    /\ calls = <<>>
    /\ fp = "null"
    /\ fpos = 0
    /\ file \in TxFiles
    /\ streaming = FALSE
    /\ in_cb = FALSE
    /\ cb_log = <<>>
    /\ result = NotReturned
    /\ SerialOnly
    /\ SerIdle
    /\ HostIdle

\* one library call of transmit_s8_iq_file with its failure return: on
\* failure the n resources held are released and false is returned
TxCall(from, to, fn, n) ==
    /\ pc = from
    /\ \E ok \in BOOLEAN :
          LET made == Append(calls, [fn |-> fn, ok |-> ok])
          IN  IF ok
              THEN /\ calls' = made
                   /\ fp' = (IF fn = "fopen" THEN "open" ELSE fp)
                   /\ streaming' =
                        (IF fn = "hackrf_start_tx" THEN TRUE
                         ELSE IF fn = "hackrf_stop_tx" THEN FALSE
                         ELSE streaming)
                   /\ result' = result
                   /\ pc' = to
              ELSE /\ calls' = made \o Made(cleanup(n))
                   /\ fp' = (IF Closes(cleanup(n)) THEN "closed" ELSE fp)
                   /\ streaming' = streaming
                   /\ result' = Returned(FALSE)
                   /\ pc' = "tx_done"
    /\ UNCHANGED <<fpos, file, in_cb, cb_log>>
    /\ UNCHANGED <<iq_sf, wave, fout, fout_err, interp_buf, samples_s8>>
    /\ UNCHANGED <<frameVars, modVars, serVars, hostVars>>

TxInit == TxCall("tx_init", "tx_open", "hackrf_init", 0)
TxOpen == TxCall("tx_open", "tx_freq", "hackrf_open", 1)
TxSetFreq == TxCall("tx_freq", "tx_rate", "hackrf_set_freq", 2)
TxSetSampleRate == TxCall("tx_rate", "tx_amp", "hackrf_set_sample_rate", 2)
TxSetAmp == TxCall("tx_amp", "tx_gain", "hackrf_set_amp_enable", 2)
TxSetGain == TxCall("tx_gain", "tx_fopen", "hackrf_set_txvga_gain", 2)
TxFopen == TxCall("tx_fopen", "tx_start", "fopen", 2)
TxStart == TxCall("tx_start", "tx_wait", "hackrf_start_tx", 3)
TxStop == TxCall("tx_stop", "tx_close", "hackrf_stop_tx", 3)

\* the wait loop is left once hackrf_is_streaming is not HACKRF_TRUE
TxWait ==
    /\ pc = "tx_wait"
    /\ ~wait(streaming)
    /\ pc' = "tx_stop"
    /\ UNCHANGED <<txVars, outVars, frameVars, modVars, serVars, hostVars>>

\* fclose(fp); hackrf_close(device); hackrf_exit(); return true;
TxFinish ==
    /\ pc = "tx_close"
    /\ calls' = calls \o Made(cleanup(3))
    /\ fp' = (IF Closes(cleanup(3)) THEN "closed" ELSE fp)
    /\ result' = Returned(TRUE)
    /\ pc' = "tx_done"
    /\ UNCHANGED <<fpos, file, streaming, in_cb, cb_log>>
    /\ UNCHANGED <<iq_sf, wave, fout, fout_err, interp_buf, samples_s8>>
    /\ UNCHANGED <<frameVars, modVars, serVars, hostVars>>

\* the driver's transfer thread enters tx_callback
CbEnter ==
    /\ streaming
    /\ ~in_cb
    /\ Len(cb_log) < MaxInvocations
    /\ in_cb' = TRUE
    /\ UNCHANGED <<pc, calls, fp, fpos, file, streaming, cb_log>>
    /\ UNCHANGED <<outVars, frameVars, modVars, serVars, hostVars>>

\* tx_callback from fread to its return.  fread gives buffer_length bytes,
\* or what is left of the file with feof set, or fewer bytes with the error
\* indicator set; only at feof is the rest of the buffer set to zero.
CbRun ==
    /\ in_cb
    /\ \E nread \in 0..BufferLength, eof \in BOOLEAN, stale \in StaleBytes :
          LET left == Len(file) - fpos
              data == SubSeq(file, fpos + 1, fpos + nread)
              rest == IF eof THEN Zeros(BufferLength - nread)
                      ELSE [i \in 1..(BufferLength - nread) |-> stale]
              ret == tx_return(nread, BufferLength)
          IN  /\ nread <= left
              /\ nread = BufferLength => ~eof /\ stale = 0
              /\ eof => nread = left /\ stale = 0
              /\ fpos' = fpos + nread
              /\ cb_log' = Append(cb_log,
                     [buffer |-> data \o rest, nread |-> nread,
                      eof |-> eof, ret |-> ret, fp |-> fp])
              /\ streaming' = (streaming /\ ret = 0)
    /\ in_cb' = FALSE
    /\ UNCHANGED <<pc, calls, fp, file>>
    /\ UNCHANGED <<outVars, frameVars, modVars, serVars, hostVars>>

MainThread ==
    \/ TxInit \/ TxOpen \/ TxSetFreq \/ TxSetSampleRate \/ TxSetAmp
    \/ TxSetGain \/ TxFopen \/ TxStart \/ TxWait \/ TxStop \/ TxFinish

DriverThread == CbEnter \/ CbRun

NextTransmit == MainThread \/ DriverThread

SpecTransmit == InitTransmit /\ [][NextTransmit]_vars

\* the driver keeps invoking the callback while the stream is on, and the
\* main thread keeps running
SpecTransmitFair ==
    SpecTransmit /\ WF_vars(DriverThread) /\ WF_vars(MainThread)

-----------------------------------------------------------------------------
(* SpecMain: the polling loop of main.  A cycle receives what request_json   *)
(* returned: nothing, a text json::parse rejects, or a JSON object with or   *)
(* without the fields "timestamp" and "info".                                *)

Report == <<79, 75>> \* "OK"

Messages ==
    {[kind |-> "empty"], [kind |-> "unparsable"]} \cup
    {[kind |-> "json", timestamp |-> ts, has_info |-> FALSE, info |-> <<>>] :
         ts \in BOOLEAN} \cup
    [kind : {"json"}, timestamp : BOOLEAN, has_info : {TRUE},
     info : {Hello, Report}]

\* the cycle goes through the branch that fills sensorData
Valid(msg) == msg.kind = "json" /\ msg.timestamp

\* config.info after the branches of one cycle
info_after_Adopts(info, msg) ==
    IF Valid(msg) THEN (IF msg.has_info THEN msg.info ELSE info) ELSE <<>>
info_after(info, msg) == IF Valid(msg) THEN info ELSE <<>>

InitMain ==
    /\ pc = "main_poll"
    /\ config \in [callsign : {N0CALL}, dest : {APRS}, path : {<<>>},
                   info : {<<>>, Hello}]
    /\ body = <<>> /\ frame_bytes = <<>> /\ frame = <<>>
    /\ frame_nrzi = <<>> /\ s = <<>>
    /\ ModIdle
    /\ iq_sf = "IQ_S8" /\ wave = <<>> /\ fout = NotOpen /\ fout_err = FALSE
    /\ interp_buf = <<>> /\ samples_s8 = <<>>
    /\ result = NotReturned
    /\ SerIdle
    /\ TxIdle
    /\ received = NoMessage
    /\ cycles = <<>>
    /\ path_buf = <<>>

\* jsonMsg = request_json(fd) and the branches on it
MainPoll ==
    /\ pc = "main_poll"
    /\ Len(cycles) < MaxCycles
    /\ \E msg \in Messages :
          /\ received' = msg
          /\ config' = [config EXCEPT !.info = info_after(config.info, msg)]
    /\ pc' = "main_aprs"
    /\ UNCHANGED <<body, frame_bytes, frame, frame_nrzi, s>>
    /\ UNCHANGED <<cycles, path_buf>>
    /\ UNCHANGED <<modVars, outVars, serVars, txVars>>

\* int result = run_aprs(logger, config); sleep(1);
MainRunAprs ==
    /\ pc = "main_aprs"
    /\ cycles' = Append(cycles, [msg |-> received, info |-> infoUsed(config)])
    /\ pc' = "main_poll"
    /\ UNCHANGED <<received, path_buf>>
    /\ UNCHANGED <<frameVars, modVars, outVars, serVars, txVars>>

NextMain == MainPoll \/ MainRunAprs

SpecMain == InitMain /\ [][NextMain]_vars

-----------------------------------------------------------------------------
(* SpecPath: the path buffer of gen_iq_s8.  `char path[64]` is not           *)
(* initialised: a byte strncpy does not write holds what the stack held,     *)
(* zero or not.                                                              *)

PathSize == 64 \* char path[64]
PathCopy == 63 \* strncpy(path, user_path, 63)
NUL == 0

StackBytes == {NUL, 170}

Fill(n) == [i \in 1..n |-> 87]

UserPaths == {Fill(n) : n \in 0..MaxPathLen} \cup {PathOf(MaxDigis)}

\* strncpy(dst, src, n) on the array dst: n bytes are written, the
\* characters of src and then NULs, and the bytes from n on are left alone
strncpy_into(dst, src, n) ==
    [i \in 1..Len(dst) |->
        IF i > n THEN dst[i] ELSE IF i <= Len(src) THEN src[i] ELSE NUL]

HasNul(mem) == \E i \in 1..Len(mem) : mem[i] = NUL

\* the string a reader of the array sees: the bytes before the first NUL
CStr(mem) ==
    LET first == CHOOSE i \in 1..Len(mem) :
                     mem[i] = NUL /\ \A j \in 1..(i - 1) : mem[j] # NUL
    IN  SubSeq(mem, 1, first - 1)

InitPath ==
    /\ pc = "gi_start"
    /\ config \in [callsign : {N0CALL}, dest : {APRS}, path : UserPaths,
                   info : {Hello}]
    /\ body = <<>> /\ frame_bytes = <<>> /\ frame = <<>>
    /\ frame_nrzi = <<>> /\ s = <<>>
    /\ ModIdle
    /\ iq_sf = "IQ_S8" /\ wave = <<>> /\ fout = NotOpen /\ fout_err = FALSE
    /\ interp_buf = <<>> /\ samples_s8 = <<>>
    /\ result = NotReturned
    /\ SerIdle
    /\ TxIdle
    /\ received = NoMessage
    /\ cycles = <<>>
    /\ path_buf = <<>>

\* char path[64];
GenIqPathDecl ==
    /\ pc = "gi_start"
    /\ \E b \in StackBytes : path_buf' = [i \in 1..PathSize |-> b]
    /\ pc' = "gi_copy"
    /\ UNCHANGED <<received, cycles>>
    /\ UNCHANGED <<frameVars, modVars, outVars, serVars, txVars>>

\* strncpy(path, user_path, 63);
GenIqPathCopy ==
    /\ pc = "gi_copy"
    /\ path_buf' = strncpy_into(path_buf, config.path, PathCopy)
    /\ pc' = "gi_read"
    /\ UNCHANGED <<received, cycles>>
    /\ UNCHANGED <<frameVars, modVars, outVars, serVars, txVars>>

\* ax25frame(callsign, dest, path, info, false) reads path as a string;
\* without a NUL in the array the read runs past path[63]
GenIqPathRead ==
    /\ pc = "gi_read"
    /\ result' = (IF HasNul(path_buf) THEN Returned(CStr(path_buf))
                  ELSE Raised("ReadPastBuffer"))
    /\ pc' = "gi_done"
    /\ UNCHANGED <<iq_sf, wave, fout, fout_err, interp_buf, samples_s8>>
    /\ UNCHANGED <<frameVars, modVars, serVars, txVars, hostVars>>

NextPath == GenIqPathDecl \/ GenIqPathCopy \/ GenIqPathRead

SpecPath == InitPath /\ [][NextPath]_vars

-----------------------------------------------------------------------------
(* Operators the properties are stated with *)

\* the bits strictly between the opening and the closing flag bytes
DataBits(f) == SubSeq(f, (8 * OpeningFlags) + 1, Len(f) - (8 * ClosingFlags))

\* no six consecutive 1 bits anywhere in bits
NoRunOfSix(bits) ==
    \A i \in 1..(Len(bits) - 5) : \E j \in i..(i + 5) : bits[j] = 0

\* the bit offsets at which Serialize emitted a flag byte into f
FlagOffsets(f) ==
    {(8 * k) + 1 : k \in 0..(OpeningFlags - 1)}
      \cup {Len(f) - (8 * k) - 7 : k \in 0..(ClosingFlags - 1)}

RECURSIVE UnstuffFrom(_, _)
\* the receiver's inverse: the 0 bit following five consecutive 1s is dropped
UnstuffFrom(bits, ones) ==
    IF bits = <<>> THEN <<>>
    ELSE IF ones = 5 /\ Head(bits) = 0 THEN UnstuffFrom(Tail(bits), 0)
    ELSE <<Head(bits)>>
           \o UnstuffFrom(Tail(bits),
                          IF Head(bits) = 1 /\ ones < 5 THEN ones + 1 ELSE 0)

unstuff(bits) == UnstuffFrom(bits, 0)

\* the receiver's NRZI decoder: out[i] = 1 iff in[i] = in[i-1], in[0] = initial
nrzi_decode(syms, initial) ==
    [i \in 1..Len(syms) |->
        IF syms[i] = (IF i = 1 THEN initial ELSE syms[i - 1]) THEN 1 ELSE 0]

\* reference ITU-T CRC-16: polynomial 0x1021 shifted left (MSB first) over the
\* bit-reversed input bytes, initial value 0xFFFF, result bit-reversed and
\* XORed with 0xFFFF
RefShift(crc) ==
    IF crc >= 32768 THEN BitXor((crc * 2) % 65536, CrcPoly)
    ELSE (crc * 2) % 65536

RECURSIVE RefShifts(_, _)
RefShifts(crc, n) == IF n = 0 THEN crc ELSE RefShifts(RefShift(crc), n - 1)

RECURSIVE RefRange(_, _, _, _)
RefRange(bytes, lo, hi, crc) ==
    IF lo > hi THEN crc
    ELSE IF lo = hi
         THEN RefShifts(BitXor(crc, Reflect(bytes[lo], 8) * 256), 8)
    ELSE LET mid == (lo + hi) \div 2
             left == RefRange(bytes, lo, mid, crc)
         IN  IF left >= 0 THEN RefRange(bytes, mid + 1, hi, left) ELSE left

RefCrc16(bytes) ==
    BitXor(Reflect(RefRange(bytes, 1, Len(bytes), 65535), 16), 65535)

\* number of entries of a comma-separated path
NumEntries(path) ==
    IF path = <<>> THEN 0
    ELSE 1 + Cardinality({i \in 1..Len(path) : path[i] = Comma})

-----------------------------------------------------------------------------
(* C1 .. C8 *)

\* C1: for every frame byte vector given to the bit serializer, the stuffed
\* bit stream strictly between the opening and closing flag bytes has no run
\* of six consecutive 1 bits, runs being counted across byte boundaries
\* (also across the info/FCS boundary).
C1_NoSixOnesInData ==
    pc = "serialized" =>
        /\ Len(frame) >= (8 * (OpeningFlags + ClosingFlags))
                           + (8 * Len(frame_bytes))
        /\ NoRunOfSix(DataBits(frame))

\* a frame whose last body byte ends in 1 bits that run on into the first
\* FCS byte, so that a 0 is inserted inside the FCS
C1_Witness ==
    /\ pc = "serialized"
    /\ body # <<>>
    /\ body[Len(body)] = 252
    /\ \A i \in 0..3 : Bit(frame_bytes[Len(body) + 1], i) = 1
    /\ Len(frame) >= (8 * (OpeningFlags + ClosingFlags))
                       + (8 * Len(frame_bytes)) + 2

\* C2: in the complete outgoing bit stream the pattern 01111110 occurs only
\* at the bit offsets where a flag byte was emitted, never inside the
\* stuffed data and never straddling a flag/data boundary.
C2_FlagOnlyAtFlagOffsets ==
    pc = "serialized" =>
        /\ \A i \in 1..(Len(frame) - 7) :
              SubSeq(frame, i, i + 7) = FlagBits => i \in FlagOffsets(frame)
        /\ \A i \in FlagOffsets(frame) : SubSeq(frame, i, i + 7) = FlagBits

\* a serialized frame whose data holds a byte equal to the flag
C2_Witness ==
    /\ pc = "serialized"
    /\ \E i \in 1..Len(body) : body[i] = Flag
    /\ Len(frame) > (8 * (OpeningFlags + ClosingFlags)) + (8 * Len(frame_bytes))

\* C3: un-stuffing the bit-stuffed form of any logical bit sequence s
\* yields exactly s.
C3_UnstuffInverse ==
    pc = "stuffed" => unstuff(frame) = s

\* a sequence in which a 0 bit was actually inserted
C3_Witness ==
    /\ pc = "stuffed"
    /\ Len(frame) > Len(s)

\* C4: NRZI encoding (0 toggles, 1 holds, the symbol is the new level)
\* followed by the decoder out[i] = 1 iff in[i] = in[i-1] returns the
\* original bits, and the encoded sequence is as long as the input.
C4_NrziRoundTrip ==
    pc = "nrzi" =>
        /\ Len(frame_nrzi) = Len(s)
        /\ nrzi_decode(frame_nrzi, NrziInit) = s
        /\ \A i \in 1..Len(s) :
              LET prev == IF i = 1 THEN NrziInit ELSE frame_nrzi[i - 1]
              IN  frame_nrzi[i] = (IF s[i] = 0 THEN 1 - prev ELSE prev)

\* an encoded sequence holding both a toggling and a holding bit
C4_Witness ==
    /\ pc = "nrzi"
    /\ \E i, j \in 1..Len(s) : s[i] = 0 /\ s[j] = 1

\* C5: the FCS of the frame builder equals the reference ITU-T CRC-16 of the
\* bytes; CRC16("123456789") = 0x906E; the two bytes appended are the low
\* byte and then the high byte (0x6E, 0x90 for that vector).
C5_FcsIsReferenceCrc ==
    pc \in {"fcs", "serialized"} =>
        /\ Len(frame_bytes) = Len(body) + 2
        /\ SubSeq(frame_bytes, 1, Len(body)) = body
        /\ frame_bytes[Len(body) + 1] = RefCrc16(body) % 256
        /\ frame_bytes[Len(body) + 2] = RefCrc16(body) \div 256
        /\ body = CrcTestVector =>
              /\ Fcs(body) = 36974
              /\ frame_bytes[Len(body) + 1] = 110
              /\ frame_bytes[Len(body) + 2] = 144

\* the FCS of the test vector has been appended
C5_Witness ==
    /\ pc = "fcs"
    /\ body = CrcTestVector

\* C6: in every frame built, exactly one 7-byte address block has bit 0 of
\* its 7th byte set: the final digi entry when the path is non-empty,
\* otherwise the source; the destination and all others have it clear.
C6_OneLastAddress ==
    pc \in {"framed", "coded"} =>
        LET n == NumEntries(config.path)
        IN  /\ n <= MaxDigis
            /\ Len(frame_bytes) >= 7 * (n + 2)
            /\ \A k \in 1..(n + 2) :
                  (frame_bytes[7 * k] % 2 = 1) <=> (k = n + 2)

\* a frame with the longest digi path
C6_Witness ==
    /\ pc = "framed"
    /\ NumEntries(config.path) = MaxDigis

\* C7: for n digi entries and m info bytes the frame has 14+7n+2+m+2 bytes:
\* destination block, source block, digi blocks in path order, 0x03, 0xF0,
\* the info bytes unchanged, the two FCS bytes over all preceding bytes.
C7_FrameLayout ==
    pc \in {"framed", "coded"} =>
        LET addrs == <<ParseAddr(config.dest), ParseAddr(callsignUsed(config))>>
                       \o ParsePath(config.path)
            n == NumEntries(config.path)
            info == infoUsed(config)
            m == Len(info)
            L == Len(frame_bytes)
            crc == RefCrc16(SubSeq(frame_bytes, 1, L - 2))
        IN  /\ L = 14 + (7 * n) + 2 + m + 2
            /\ Len(addrs) = n + 2
            /\ \A k \in 1..(n + 2) :
                  /\ \A i \in 1..6 :
                        frame_bytes[(7 * (k - 1)) + i]
                          = 2 * (IF i <= Len(addrs[k].call)
                                 THEN addrs[k].call[i] ELSE 32)
                  /\ (frame_bytes[7 * k] \div 2) % 16 = addrs[k].ssid
            /\ frame_bytes[14 + (7 * n) + 1] = 3
            /\ frame_bytes[14 + (7 * n) + 2] = 240
            /\ SubSeq(frame_bytes, 14 + (7 * n) + 3, L - 2) = info
            /\ frame_bytes[L - 1] = crc % 256
            /\ frame_bytes[L] = crc \div 256

\* a frame with at least two digi entries and a non-empty info field
C7_Witness ==
    /\ pc = "framed"
    /\ NumEntries(config.path) >= 2
    /\ config.info # <<>>

\* C8 as stated: the smoke frame is 22 bytes long.
C8_SmokeFrame22 ==
    (pc \in {"framed", "coded"} /\ config = SmokeRequest) =>
        Len(frame_bytes) = 22

\* C8 amended: the smoke frame, with control 0x03, PID 0xF0, the five info
\* bytes 48 65 6C 6C 6F and the two FCS bytes, is 23 bytes long.
C8_SmokeFrame23 ==
    (pc \in {"framed", "coded"} /\ config = SmokeRequest) =>
        /\ Len(frame_bytes) = 23
        /\ SubSeq(frame_bytes, 15, 21) = <<3, 240, 72, 101, 108, 108, 111>>
        /\ frame_bytes[14] % 2 = 1

\* the smoke frame has been built
C8_Witness ==
    /\ pc = "framed"
    /\ config = SmokeRequest

\* C9: FM phase is continuous across chunk boundaries: the first fmmod call
\* starts from phase 0, every later call starts from exactly the phase the
\* previous call returned, and the phase is never reset between chunks.
C9_PhaseCarried ==
    /\ \A j \in 1..Len(hist.calls) :
          hist.calls[j].start = (IF j = 1 THEN 0 ELSE hist.calls[j - 1].ret)
    /\ \A i \in 1..Len(mod_buf) :
          mod_buf[i].psi = PhaseAfter(waveform, 0, mod_buf[i].n, 0)

\* a second chunk was modulated starting from a non-zero carried phase
C9_Witness ==
    /\ Len(hist.calls) >= 2
    /\ hist.calls[2].start # 0
    /\ hist.calls[2].ret # hist.calls[2].start

\* the FM samples the interpolator has not consumed: what is in the ring
\* buffer, less those of the interpolate call whose remove is still to come
Retained ==
    SubSeq(mod_buf, (IF pc = "write" THEN processed ELSE 0) + 1, Len(mod_buf))

\* the number of audio samples handed to fmmod so far
Modulated ==
    IF pc = "loop" THEN offset ELSE offset + input_size(waveform, offset)

\* C10: after each interpolate call exactly the consumed samples leave the
\* ring buffer; unconsumed FM samples stay, in order, ahead of the next
\* chunk's samples: consumed followed by retained samples are all FM samples
\* made so far, each once and in order.
C10_RingBufferDiscipline ==
    LET all == hist.fed \o Retained
    IN  /\ Len(all) = Modulated
        /\ \A i \in 1..Len(all) : all[i].n = i
        /\ pc = "write" => SubSeq(mod_buf, 1, processed)
                             = SubSeq(hist.fed, Len(hist.fed) - processed + 1,
                                      Len(hist.fed))

\* samples left over by one interpolate call sit in the buffer ahead of the
\* samples of the next chunk
C10_Witness ==
    /\ pc = "interp"
    /\ hist.fed # <<>>
    /\ Len(mod_buf) >= 2
    /\ mod_buf[1].n <= offset
    /\ mod_buf[Len(mod_buf)].n > offset

\* the chunk the last interpolate call produced and modulate has yet to write
Pending == IF pc = "write" THEN SubSeq(mod_buf, 1, processed) ELSE <<>>

\* C11: what modulate has written is the concatenation of the interpolator's
\* chunks in waveform order: every chunk produced so far is in the sink
\* exactly once, at its place, except the one of the interpolate call that
\* has just returned, and that one is written before the next is produced.
C11_ChunksInOrder ==
    /\ Concat(sink) \o Pending = hist.fed
    /\ \A i \in 1..Len(sink) : sink[i] # <<>>
    /\ \A i \in 1..Len(hist.fed) : hist.fed[i].n = i

\* two chunks of different sizes have been written, the second one holding
\* a sample the first interpolate call left in the buffer
C11_Witness ==
    /\ pc = "done"
    /\ Len(sink) = 2
    /\ Len(sink[1]) = 1
    /\ Len(sink[2]) = 3

RECURSIVE BytesWritten(_, _)
\* the number of bytes of the chunks modulate handed to fwrite
BytesWritten(out, fmt) ==
    IF out = <<>> THEN 0
    ELSE chunk_bytes(fmt, Len(Head(out))) + BytesWritten(Tail(out), fmt)

\* C12: in IQ_S8 mode modulate has written N * 50 * 2 bytes when it returns,
\* N the number of audio samples, which is the size gen_iq_s8 reports in
\* *total and allocates.
C12_AllBytesWritten ==
    (pc = "done" /\ iq_sf = "IQ_S8") =>
        /\ BytesWritten(sink, iq_sf) = Len(waveform) * 50 * 2
        /\ BytesWritten(sink, iq_sf) = total(waveform)

\* C13: when modulate returns, every audio sample has been FM-modulated and
\* consumed by the interpolator, and no FM sample is left in the ring buffer.
C13_AllConsumed ==
    pc = "done" =>
        /\ offset >= Len(waveform)
        /\ Len(hist.fed) = Len(waveform)
        /\ mod_buf = <<>>

Clamp(v) == IF v > SCHAR_MAX THEN SCHAR_MAX
            ELSE IF v < SCHAR_MIN THEN SCHAR_MIN ELSE v

\* C14: every byte f32_to_s8 returns is its component times 127, rounded
\* toward zero and clamped to [-128, 127], also for components whose
\* magnitude exceeds 1.0.
C14_Clamped ==
    pc = "s8" =>
        /\ Len(samples_s8) = 2 * Len(interp_buf)
        /\ \A i \in 1..Len(interp_buf) :
              /\ samples_s8[(2 * i) - 1] = Clamp(Truncate(interp_buf[i].re))
              /\ samples_s8[2 * i] = Clamp(Truncate(interp_buf[i].im))

\* C15: with format PCM_F32 run_aprs never enters modulate (no FM sample is
\* made, the interpolator sees nothing) and what it writes is the AFSK audio
\* itself, in one piece of num_bits * 40 * 4 bytes.
C15_PcmBypass ==
    iq_sf = "PCM_F32" =>
        /\ pc # "modulate"
        /\ waveform = <<>> /\ mod_buf = <<>> /\ processed = 0
        /\ (pc = "written" \/ (pc = "returned" /\ result = Returned(0))) =>
              /\ sink = <<wave>>
              /\ wave = afsk(frame_nrzi)
              /\ pcm_bytes(sink[1]) = Len(frame_nrzi) * 40 * 4

\* run_aprs has returned 0 after writing the audio of a full-length NRZI
\* stream to a file in PCM_F32
C15_Witness ==
    /\ iq_sf = "PCM_F32"
    /\ pc = "returned"
    /\ result = Returned(0)
    /\ fout = "closed"
    /\ Len(frame_nrzi) = MaxBits
    /\ Len(sink) = 1

\* C16: the AFSK phase accumulator is not reset at a bit boundary: the first
\* sample of bit i + 1 is the last sample of bit i advanced by the increment
\* of the tone of bit i + 1, and every sample's phase lies in one period.
C16_PhaseContinuous ==
    pc # "coded" =>
        /\ Len(wave) = SamplesPerBit * Len(frame_nrzi)
        /\ \A j \in 1..Len(wave) : wave[j] \in 0..(Period - 1)
        /\ \A i \in 1..(Len(frame_nrzi) - 1) :
              wave[(SamplesPerBit * i) + 1]
                = (wave[SamplesPerBit * i] + Increment(frame_nrzi[i + 1]))
                     % Period

\* a waveform in which the tone changes at a bit boundary where the phase is
\* not 0, and in which the accumulator has wrapped around
C16_Witness ==
    /\ pc = "wave"
    /\ Len(frame_nrzi) = MaxBits
    /\ \E i \in 1..(MaxBits - 1) :
          /\ frame_nrzi[i] # frame_nrzi[i + 1]
          /\ wave[SamplesPerBit * i] # 0
    /\ \E j \in 1..(Len(wave) - 1) : wave[j + 1] < wave[j]

\* the positions of run_aprs and of gen_iq_s8
InRunAprs == pc \in {"start", "framed", "coded", "error"}
InGenIq == pc \in {"gen_start", "gen_framed", "gen_coded", "gen_error"}

\* no frame has been built and nothing has been written
NothingBuilt ==
    /\ pc \in {"start", "error", "gen_start", "gen_error"}
    /\ frame_bytes = <<>> /\ frame = <<>> /\ frame_nrzi = <<>>
    /\ wave = <<>> /\ sink = <<>> /\ fout = NotOpen

\* C17: a source callsign with a character that is neither alphanumeric nor
\* a space, with more than six characters or with an SSID above 15 makes
\* run_aprs end with the error InvalidCallsign, without a frame and without
\* output.
C17_InvalidCallsignRejected ==
    LET src == ParseAddr(config.callsign)
        bad == \/ Len(src.call) > 6
               \/ src.ssid > 15
               \/ \E i \in 1..Len(src.call) :
                     ~IsAlnum(src.call[i]) /\ src.call[i] # Space
    IN  (InRunAprs /\ bad) =>
            /\ NothingBuilt
            /\ pc = "error" => result = Raised("InvalidCallsign")

\* run_aprs has ended with InvalidCallsign for the source N0CALL-16
C17_Witness ==
    /\ pc = "error"
    /\ config.callsign = Ssid16
    /\ result = Raised("InvalidCallsign")

\* C18 as stated: run_aprs refuses a request with an empty source callsign,
\* building no frame and writing nothing.
C18_EmptyCallsignRejected ==
    (InRunAprs /\ config.callsign = <<>>) => NothingBuilt

\* C18: run_aprs does not refuse an empty source callsign: it puts KD9WPR in
\* its place, ax25frame raises no InvalidCallsign for it, and the frame built
\* carries KD9WPR, SSID 0, as its source address.
C18_EmptyCallsignDefaulted ==
    (InRunAprs /\ config.callsign = <<>>) =>
        /\ FrameArgs(config).callsign = KD9WPR
        /\ result # Raised("InvalidCallsign")
        /\ pc \in {"framed", "coded"} =>
              /\ frame # <<>>
              /\ Len(frame_bytes) >= 14
              /\ SubSeq(frame_bytes, 8, 14)
                    = EncodeAddress([call |-> KD9WPR, ssid |-> 0],
                                    config.path = <<>>)

\* the frame of a request without a source callsign has been built and coded
C18_Witness ==
    /\ pc = "coded"
    /\ config.callsign = <<>>
    /\ config.info = Hello
    /\ frame_nrzi # <<>>

C20_WriteFailureSurfaced ==
    (pc = "returned" /\ fout_err) => result # Returned(0)

\* C21: request_json has sent "ACK\n" only if the message it holds is a line
\* from '{' to '}', and a non-empty string it returns is such a line.
C21_AckOnlyAfterJson ==
    pc = "rq_done" =>
        /\ (port_tx # <<>> /\ port_tx[Len(port_tx)] = ACK) => LooksJson(jsonMsg)
        /\ (result.kind = "return" /\ result.value # <<>>)
              => LooksJson(result.value)

\* C25: when interconnect_bus returns, a newline has been read and the line
\* returned is all that was read before the first newline.
C25_ReturnsAtNewline ==
    pc = "bus_ret" =>
        /\ FirstNewline(rx_log) # 0
        /\ line = LineOf(rx_log)

\* C24: interconnect_handshake returns a valid descriptor, with "HELLO\n"
\* written and the port open, if "ACKHELLO" was in what the peer sent during
\* the polling attempts; otherwise it returns -1 and the port is closed.
C24_HandshakeOutcome ==
    pc = "hs_done" =>
        IF Contains(rx_log, ACKHELLO)
        THEN /\ result = Returned(ValidFd)
             /\ fd = "open"
             /\ port_tx = <<HELLO>>
        ELSE /\ result = Returned(Failure)
             /\ fd = "closed"

\* the number of bytes the invocations before the i-th one read
RECURSIVE ReadBefore(_)
ReadBefore(i) ==
    IF i <= 1 THEN 0 ELSE ReadBefore(i - 1) + cb_log[i - 1].nread

\* C22: the invocations of tx_callback copy the file's bytes into the
\* buffers in file order without gap or repetition, return 0 for every
\* buffer filled completely, and an invocation that reads fewer than
\* buffer_length bytes (end of file or read error) leaves zeros in the rest
\* of its buffer and returns -1.
C22_FileOrderZeroFill ==
    \A i \in 1..Len(cb_log) :
        LET e == cb_log[i]
        IN  /\ SubSeq(e.buffer, 1, e.nread) =
                   SubSeq(file, ReadBefore(i) + 1, ReadBefore(i) + e.nread)
            /\ e.nread = BufferLength => e.ret = 0
            /\ e.nread < BufferLength =>
                   /\ e.ret = -1
                   /\ SubSeq(e.buffer, e.nread + 1, BufferLength) =
                          Zeros(BufferLength - e.nread)

\* C23: tx_callback never runs on a file handle that is not open (the file
\* is closed only when the stream is off and no invocation is in progress),
\* and a step of the callback changes neither the file's bytes nor the
\* handle nor anything of the signal pipeline.
C23_CallbackFileSafe ==
    /\ [](/\ in_cb => fp = "open"
          /\ streaming => fp = "open"
          /\ \A i \in 1..Len(cb_log) : cb_log[i].fp = "open")
    /\ [][DriverThread =>
             UNCHANGED <<file, fp, calls, frameVars, modVars, outVars>>]_vars

C23_Witness ==
    /\ pc = "tx_done"
    /\ fp = "closed"
    /\ result = Returned(TRUE)
    /\ Len(cb_log) = 3
    /\ cb_log[3].ret = -1

Succeeded(fn) ==
    \E i \in 1..Len(calls) : calls[i].fn = fn /\ calls[i].ok

Times(fn) == Cardinality({i \in 1..Len(calls) : calls[i].fn = fn})

Releases == {"fclose", "hackrf_close", "hackrf_exit"}

IsRelease(c) == c.fn \in Releases

\* C28: when transmit_s8_iq_file has returned, fclose was called once if
\* fopen succeeded and not at all otherwise, likewise hackrf_close for
\* hackrf_open and hackrf_exit for hackrf_init; the releases are the last
\* calls made, in the order fclose, hackrf_close, hackrf_exit; and true is
\* returned only if every call succeeded, hackrf_stop_tx among them.
C28_ReleasedOnceInReverse ==
    pc = "tx_done" =>
        LET released == SelectSeq(calls, IsRelease)
        IN  /\ Times("fclose") = (IF Succeeded("fopen") THEN 1 ELSE 0)
            /\ Times("hackrf_close") =
                   (IF Succeeded("hackrf_open") THEN 1 ELSE 0)
            /\ Times("hackrf_exit") =
                   (IF Succeeded("hackrf_init") THEN 1 ELSE 0)
            /\ [i \in 1..Len(released) |-> released[i].fn] \in
                   {<<>>, <<"hackrf_exit">>,
                    <<"hackrf_close", "hackrf_exit">>,
                    <<"fclose", "hackrf_close", "hackrf_exit">>}
            /\ \A i, j \in 1..Len(calls) :
                   i < j /\ IsRelease(calls[i]) => IsRelease(calls[j])
            /\ result = Returned(TRUE) =>
                   /\ \A i \in 1..Len(calls) : calls[i].ok
                   /\ Succeeded("hackrf_stop_tx")
            /\ result \in {Returned(TRUE), Returned(FALSE)}

C28_Witness ==
    /\ pc = "tx_done"
    /\ result = Returned(FALSE)
    /\ Succeeded("hackrf_start_tx")
    /\ Times("hackrf_stop_tx") = 1
    /\ Times("fclose") = 1

\* C29: once hackrf_start_tx has succeeded, transmit_s8_iq_file eventually
\* returns, provided the driver keeps invoking the callback while the
\* stream is on.
C29_TransmitReturns == (pc = "tx_wait") ~> (pc = "tx_done")

C29_Witness ==
    /\ pc = "tx_done"
    /\ Succeeded("hackrf_start_tx")
    /\ Len(file) = MaxFileLen
    /\ Len(cb_log) = MaxFileLen \div BufferLength + 1
    /\ ~streaming

\* C26: in a cycle whose JSON message has an "info" field, config.info is
\* that text when run_aprs is called, and the frame of that cycle carries it.
C26_InfoFromMessage ==
    /\ (pc = "main_aprs" /\ received.kind = "json" /\ received.has_info)
           => config.info = received.info
    /\ \A i \in 1..Len(cycles) :
           (cycles[i].msg.kind = "json" /\ cycles[i].msg.has_info)
               => cycles[i].info = cycles[i].msg.info

\* some cycle so far received no valid JSON
EverInvalid ==
    \/ \E i \in 1..Len(cycles) : ~Valid(cycles[i].msg)
    \/ pc = "main_aprs" /\ ~Valid(received)

C30_PathTerminated ==
    /\ pc \in {"gi_read", "gi_done"} =>
           /\ HasNul(path_buf)
           /\ CStr(path_buf) =
                  SubSeq(config.path, 1, Min(Len(config.path), PathCopy))
    /\ pc = "gi_done" => result.kind = "return"

====
